---- MODULE Spec2Model ----
(***************************************************************************)
(* Model of the query-resolution and geospatial-ranking pipeline of        *)
(* src/app/main.py: filter_places (the candidate aggregator), the address  *)
(* extraction chain (regex_extract_address, llm_extract_address,           *)
(* extract_address_from_query) and the router determine_api_action with    *)
(* the five endpoint handlers it dispatches to.                            *)
(***************************************************************************)
EXTENDS Integers, Sequences, FiniteSets, Bags, TLC

\* ------------------------------------------------------------------ bounds
\* longest place-search result list handed to filter_places
MaxPlaces == 6
\* coordinates are grid points 0..MaxCoord on one meridian
MaxCoord == 2
\* leading candidates of a list whose name, shape and location are all free
MaxFree == 2
\* longest query text, in words
MaxQueryLen == 3

\* largest distance_m a walking time is computed for
MaxDistance == 240

\* longest list of school records handed to find_closest_school
MaxSchools == 3

\* number of queries routed at the same time
MaxConcurrent == 2

\* last value of the clock
MaxTime == 2

\* number of requests that can be between their lookup and their commit
MaxPending == 2

\* ------------------------------------------------------- program constants
\* filtered[:5]
TopN == 5
\* int(distance_m / 80)
WalkSpeed == 80
\* One grid step of latitude is 79.5 m (795 decimetres): geodesic() returns a
\* float, so the model keeps one decimal digit for int() to truncate.
UnitDm == 795

NoVicinity == "None"
NoAddress == "No address available"

ParkTypes == {"park", "playground", "trail", "dog_park"}
CentreTypes == {"community_center", "recreation_center"}

\* ---------------------------------------------------------------- helpers
Abs(x) == IF x < 0 THEN -x ELSE x

Range(s) == {s[i] : i \in 1..Len(s)}

\* a slice that forgets its limit
Take_unlimited(s, n) == s

\* s[:n]
Take(s, n) == IF Len(s) <= n THEN s ELSE SubSeq(s, 1, n)

\* geodesic((lat, lng), (place_lat, place_lng)).meters, in decimetres
geodesic_dm(lat, lng, place_lat, place_lng) ==
    (Abs(lat - place_lat) + Abs(lng - place_lng)) * UnitDm

\* int(x) of a non-negative float held in tenths
int_of_tenths(x) == x \div 10

\* int(geodesic(...).meters)
distance_of(lat, lng, place) ==
    int_of_tenths(geodesic_dm(lat, lng, place.lat, place.lng))

\* a walking time rounded to the nearest minute
walking_time_rounded(distance_m) == (distance_m + WalkSpeed \div 2) \div WalkSpeed

\* int(distance_m / 80)
walking_time_of(distance_m) == distance_m \div WalkSpeed

\* any(t in allowed_types for t in place.get('types', []))
passes_filter(place, allowed_types) ==
    \E k \in 1..Len(place.types) : place.types[k] \in allowed_types

\* a label that calls every candidate of the community-centre search a centre
type_label_any_centre(place) ==
    IF \E k \in 1..Len(place.types) : place.types[k] \in CentreTypes
    THEN "community_centre" ELSE "park"

\* "community_centre" if "community_center" in place.get('types', []) else "park"
type_label(place) ==
    IF "community_center" \in Range(place.types) THEN "community_centre" ELSE "park"

\* place.get('vicinity') or "No address available"
place_address_of(place) ==
    IF place.vicinity = NoVicinity THEN NoAddress ELSE place.vicinity

\* the dict appended to filtered
entry_of(place, lat, lng) ==
    [name |-> place.name,
     type |-> type_label(place),
     address |-> place_address_of(place),
     latitude |-> place.lat,
     longitude |-> place.lng,
     distance_m |-> distance_of(lat, lng, place),
     walking_time_min |-> walking_time_of(distance_of(lat, lng, place)),
     rank |-> 0]

\* a dedup test that never consults seen
keeps_ignoring_seen(place, allowed_types, seen) == passes_filter(place, allowed_types)

\* the two nested ifs of the loop body: type filter, then place['name'] not in seen
keeps(place, allowed_types, seen) ==
    passes_filter(place, allowed_types) /\ place.name \notin seen

\* a loop in which a later candidate of a seen name replaces the kept entry
RECURSIVE filter_loop_last_wins(_, _, _, _, _, _)
filter_loop_last_wins(places_in, i, lat, lng, allowed_types, st) ==
    IF i > Len(places_in) THEN st.filtered
    ELSE LET place == places_in[i]
             e == entry_of(place, lat, lng)
         IN filter_loop_last_wins(places_in, i + 1, lat, lng, allowed_types,
                IF ~passes_filter(place, allowed_types) THEN st
                ELSE IF place.name \in st.seen
                THEN [filtered |-> [k \in 1..Len(st.filtered) |->
                                       IF st.filtered[k].name = place.name
                                       THEN e ELSE st.filtered[k]],
                      seen |-> st.seen]
                ELSE [filtered |-> Append(st.filtered, e),
                      seen |-> st.seen \cup {place.name}])

\* a loop that records every name in seen before it looks at the types
RECURSIVE filter_loop_dedup_first(_, _, _, _, _, _)
filter_loop_dedup_first(places_in, i, lat, lng, allowed_types, st) ==
    IF i > Len(places_in) THEN st.filtered
    ELSE LET place == places_in[i]
         IN filter_loop_dedup_first(places_in, i + 1, lat, lng, allowed_types,
                IF place.name \in st.seen THEN st
                ELSE IF passes_filter(place, allowed_types)
                THEN [filtered |-> Append(st.filtered, entry_of(place, lat, lng)),
                      seen |-> st.seen \cup {place.name}]
                ELSE [filtered |-> st.filtered,
                      seen |-> st.seen \cup {place.name}])

\* the for loop of filter_places from index i on; st = [filtered, seen]
RECURSIVE filter_loop(_, _, _, _, _, _)
filter_loop(places_in, i, lat, lng, allowed_types, st) ==
    IF i > Len(places_in) THEN st.filtered
    ELSE LET place == places_in[i]
             keep == keeps(place, allowed_types, st.seen)
         IN filter_loop(places_in, i + 1, lat, lng, allowed_types,
                IF keep
                THEN [filtered |-> Append(st.filtered, entry_of(place, lat, lng)),
                      seen |-> st.seen \cup {place.name}]
                ELSE st)

\* an insertion that orders by descending distance_m
RECURSIVE insert_descending(_, _)
insert_descending(srt, e) ==
    IF srt = <<>> THEN <<e>>
    ELSE IF srt[Len(srt)].distance_m >= e.distance_m THEN Append(srt, e)
    ELSE Append(insert_descending(SubSeq(srt, 1, Len(srt) - 1), e), srt[Len(srt)])

\* an insertion that puts an entry before the entries of equal distance_m
RECURSIVE insert_before_ties(_, _)
insert_before_ties(srt, e) ==
    IF srt = <<>> THEN <<e>>
    ELSE IF srt[Len(srt)].distance_m < e.distance_m THEN Append(srt, e)
    ELSE Append(insert_before_ties(SubSeq(srt, 1, Len(srt) - 1), e), srt[Len(srt)])

\* one insertion of a stable sort keyed on distance_m
RECURSIVE insert_by_distance(_, _)
insert_by_distance(srt, e) ==
    IF srt = <<>> THEN <<e>>
    ELSE IF srt[Len(srt)].distance_m <= e.distance_m THEN Append(srt, e)
    ELSE Append(insert_by_distance(SubSeq(srt, 1, Len(srt) - 1), e), srt[Len(srt)])

\* a sort that leaves the list in filter order
sort_skipped(s) == s

\* filtered.sort(key=lambda x: x['distance_m'])
RECURSIVE sort_by_distance(_)
sort_by_distance(s) ==
    IF s = <<>> THEN <<>>
    ELSE insert_by_distance(sort_by_distance(SubSeq(s, 1, Len(s) - 1)), s[Len(s)])

\* for i, place in enumerate(filtered): place['rank'] = i + 1
assign_rank(s) == [i \in 1..Len(s) |-> [s[i] EXCEPT !.rank = i]]

filter_places(places_in, lat, lng, allowed_types) ==
    assign_rank(Take(sort_by_distance(
        filter_loop(places_in, 1, lat, lng, allowed_types,
                    [filtered |-> <<>>, seen |-> {}])), TopN))

\* ------------------------------------------------------ address extraction
\* A text is the sequence of its whitespace-separated words (single spaces);
\* "" is <<>>. The vocabulary below fixes, for each word, what the character
\* classes of the patterns make of it.

\* words matching \d{1,5} in full: the only places where \b\d{1,5}\s+ can start
HouseNumbers == {"123", "3"}

\* words made of [A-Za-z0-9] only; "&" and "," are not
AlnumWords ==
    {"123", "3", "123456", "Main", "Oak", "schools", "St", "V6K2C3", "V6K", "2C3",
     "Vancouver", "vancouver", "West", "North", "Burnaby", "Richmond", "Surrey",
     "Coquitlam", "Delta", "Langley"}

\* (?:St|Street|Avenue|Ave|Rd|Road|Blvd|Boulevard|Lane|Ln|Drive|Dr|Court|Ct|Way)
StreetSuffixes ==
    {"St", "Street", "Avenue", "Ave", "Rd", "Road", "Blvd", "Boulevard", "Lane",
     "Ln", "Drive", "Dr", "Court", "Ct", "Way"}

\* str.lower() on one word
lower_word(w) ==
    CASE w = "Vancouver" -> "vancouver"
      [] w = "West" -> "west"
      [] w = "North" -> "north"
      [] w = "Burnaby" -> "burnaby"
      [] w = "Richmond" -> "richmond"
      [] w = "Surrey" -> "surrey"
      [] w = "Coquitlam" -> "coquitlam"
      [] w = "Delta" -> "delta"
      [] w = "Langley" -> "langley"
      [] w = "Main" -> "main"
      [] w = "Schools" -> "schools"
      [] w = "TRANSIT" -> "transit"
      [] w = "Oak" -> "oak"
      [] w = "St" -> "st"
      [] w = "V6K2C3" -> "v6k2c3"
      [] w = "V6K" -> "v6k"
      [] w = "2C3" -> "2c3"
      [] OTHER -> w

\* a lower() that leaves the text as it is
lower_skipped(text) == text

\* str.lower() on a text
lower(text) == [i \in 1..Len(text) |-> lower_word(text[i])]

BC_CITIES ==
    << <<"Vancouver">>, <<"West", "Vancouver">>, <<"North", "Vancouver">>,
       <<"Burnaby">>, <<"Richmond">>, <<"Surrey">>, <<"Coquitlam">>,
       <<"Delta">>, <<"Langley">> >>

\* needle in text, for texts compared word by word
contains(text, needle) ==
    \E i \in 1..(Len(text) - Len(needle) + 1) :
        \A k \in 1..Len(needle) : text[i + k - 1] = needle[k]

\* least element of a non-empty set of positions
Least(S) == CHOOSE x \in S : \A y \in S : x <= y

\* stage 1, street_pattern.search(query): the leftmost house number followed
\* by a word, then greedily up to four more words, then an optional suffix
street_starts(query) ==
    {i \in 1..(Len(query) - 1) :
        query[i] \in HouseNumbers /\ query[i + 1] \in AlnumWords}

street_words_end(query, i) ==
    LET ext == {k \in 0..4 :
                   /\ i + 1 + k <= Len(query)
                   /\ \A m \in 1..k : query[i + 1 + m] \in AlnumWords}
    IN i + 1 + (CHOOSE k \in ext : \A y \in ext : y <= k)

street_match(query) ==
    IF street_starts(query) = {} THEN <<>>
    ELSE LET i == Least(street_starts(query))
             j == street_words_end(query, i)
             e == IF j + 1 <= Len(query) /\ query[j + 1] \in StreetSuffixes
                  THEN j + 1 ELSE j
         IN SubSeq(query, i, e)

\* stage 2, postal_pattern.search(query): A1A1A1 in one word, or A1A 1A1
postal_starts(query) ==
    {i \in 1..Len(query) :
        \/ lower_word(query[i]) = "v6k2c3"
        \/ /\ i + 1 <= Len(query)
           /\ lower_word(query[i]) = "v6k"
           /\ lower_word(query[i + 1]) = "2c3"}

postal_match(query) ==
    IF postal_starts(query) = {} THEN <<>>
    ELSE LET i == Least(postal_starts(query))
         IN IF lower_word(query[i]) = "v6k2c3" THEN <<query[i]>>
            ELSE SubSeq(query, i, i + 1)

\* stage 3: for city in BC_CITIES: if city.lower() in query.lower(): return city
city_hits(query) ==
    {c \in 1..Len(BC_CITIES) : contains(lower(query), lower(BC_CITIES[c]))}

\* a city stage that answers with the last gazetteer entry found in the text
city_match_last_hit(query) ==
    IF city_hits(query) = {} THEN <<>>
    ELSE BC_CITIES[CHOOSE c \in city_hits(query) : \A d \in city_hits(query) : d <= c]

city_match(query) ==
    IF city_hits(query) = {} THEN <<>> ELSE BC_CITIES[Least(city_hits(query))]

\* stage 4, intersection_pattern.search(query): word & word
intersection_starts(query) ==
    {i \in 1..(Len(query) - 2) :
        query[i] \in AlnumWords /\ query[i + 1] = "&" /\ query[i + 2] \in AlnumWords}

intersection_match(query) ==
    IF intersection_starts(query) = {} THEN <<>>
    ELSE SubSeq(query, Least(intersection_starts(query)),
                Least(intersection_starts(query)) + 2)

\* a chain that looks for a city before it looks for a street address
regex_extract_city_first(query) ==
    IF city_match(query) # <<>> THEN city_match(query)
    ELSE IF street_match(query) # <<>> THEN street_match(query)
    ELSE IF postal_match(query) # <<>> THEN postal_match(query)
    ELSE intersection_match(query)

\* a chain that looks for a postal code before it looks for a street address
regex_extract_postal_first(query) ==
    IF postal_match(query) # <<>> THEN postal_match(query)
    ELSE IF street_match(query) # <<>> THEN street_match(query)
    ELSE IF city_match(query) # <<>> THEN city_match(query)
    ELSE intersection_match(query)

regex_extract_address(query) ==
    IF street_match(query) # <<>> THEN street_match(query)
    ELSE IF postal_match(query) # <<>> THEN postal_match(query)
    ELSE IF city_match(query) # <<>> THEN city_match(query)
    ELSE intersection_match(query)

\* Whitespace around an LLM answer is kept as " " entries at its ends.
\* str.strip(): drop them
RECURSIVE strip(_)
strip(text) ==
    IF text = <<>> THEN <<>>
    ELSE IF text[1] = " " THEN strip(Tail(text))
    ELSE IF text[Len(text)] = " " THEN strip(SubSeq(text, 1, Len(text) - 1))
    ELSE text

\* a scan that keeps the record of the largest distance
RECURSIVE closest_scan_farthest(_, _, _, _, _, _)
closest_scan_farthest(lat, lng, schools, i, best, min_distance) ==
    IF i > Len(schools) THEN best
    ELSE LET distance == geodesic_dm(lat, lng, schools[i].lat, schools[i].lng)
         IN IF best = 0 \/ distance > min_distance
            THEN closest_scan_farthest(lat, lng, schools, i + 1, i, distance)
            ELSE closest_scan_farthest(lat, lng, schools, i + 1, best, min_distance)

\* a scan that replaces the kept record also on an equal distance
RECURSIVE closest_scan_last_tie(_, _, _, _, _, _)
closest_scan_last_tie(lat, lng, schools, i, best, min_distance) ==
    IF i > Len(schools) THEN best
    ELSE LET distance == geodesic_dm(lat, lng, schools[i].lat, schools[i].lng)
         IN IF best = 0 \/ distance <= min_distance
            THEN closest_scan_last_tie(lat, lng, schools, i + 1, i, distance)
            ELSE closest_scan_last_tie(lat, lng, schools, i + 1, best, min_distance)

\* min_distance / closest_school after the scan of schools[i..]; best = 0 is None
RECURSIVE closest_scan(_, _, _, _, _, _)
closest_scan(lat, lng, schools, i, best, min_distance) ==
    IF i > Len(schools) THEN best
    ELSE LET distance == geodesic_dm(lat, lng, schools[i].lat, schools[i].lng)
         IN IF best = 0 \/ distance < min_distance
            THEN closest_scan(lat, lng, schools, i + 1, i, distance)
            ELSE closest_scan(lat, lng, schools, i + 1, best, min_distance)

\* index of the returned record in schools, 0 for None
find_closest_school(lat, lng, schools) == closest_scan(lat, lng, schools, 1, 0, 0)

\* ------------------------------------------------------------------ state
VARIABLES
    places_data,    \* filter_places argument: the place-search result list
    origin,         \* filter_places arguments lat, lng
    allowed_types,  \* filter_places argument
    filtered,       \* the list filter_places returned
    agg_pc,         \* "input" before the call, "returned" after it
    user_query,     \* determine_api_action argument
    intent_content, \* message.content of the intent completion, as received
    pc,             \* position of the router in determine_api_action
    action,         \* response.choices[0].message.content.strip().lower()
    address,        \* the extracted address
    handler,        \* the endpoint function the router called
    calls,          \* collaborator calls issued so far, in order
    parks,          \* nearby_parks_and_centres: the first filter_places result
    reply,          \* how the last collaborator call ended
    response,       \* the value determine_api_action returned
    walk_distance,  \* distance_m of one candidate
    walk_minutes,   \* walking_time_min computed from it
    walk_pc,        \* "input" before the computation, "returned" after it
    near_schools,   \* find_closest_school argument: data['results']
    closest_school, \* index in schools of the record returned, 0 for None
    near_pc,        \* "input" before the call, "returned" after it
    config,         \* module-level configuration: API keys and BC_CITIES
    reqs,           \* the local state of each request being routed concurrently
    users,          \* rows of the users table
    blacklist,      \* rows of the token_blacklist table
    now,            \* the clock the token expiry is compared with
    pending,        \* requests between their lookup and their commit
    last            \* the request answered last, with its response

agg_vars == <<places_data, origin, allowed_types, filtered, agg_pc>>

router_vars == <<user_query, intent_content, pc, action, address, handler, calls, parks, reply, response>>

walk_vars == <<walk_distance, walk_minutes, walk_pc>>

near_vars == <<near_schools, closest_school, near_pc>>

conc_vars == <<config, reqs>>

\* everything besides the aggregator call and the single routed query
auth_vars == <<users, blacklist, now, pending, last>>

aux_vars == <<walk_vars, near_vars, conc_vars, auth_vars>>

vars == <<places_data, origin, allowed_types, filtered, agg_pc,
          user_query, intent_content, pc, action, address, handler, calls, parks, reply, response,
          walk_distance, walk_minutes, walk_pc, near_schools, closest_school, near_pc,
          config, reqs, users, blacklist, now, pending, last>>

\* ----------------------------------------------------- aggregator inputs
Coords == 0..MaxCoord

Origins == {[lat |-> 0, lng |-> 0], [lat |-> 1, lng |-> 0]}

\* what a Places result carries besides its name and location
Shapes ==
    {[types |-> <<"park">>, vicinity |-> "12 Elm St"],
     [types |-> <<"recreation_center">>, vicinity |-> NoVicinity],
     [types |-> <<"park", "community_center">>, vicinity |-> "9 Oak Ave"]}

PlainShape == [types |-> <<"park", "community_center">>, vicinity |-> "9 Oak Ave"]

mk_place(nm, sh, la) ==
    [name |-> nm, types |-> sh.types, vicinity |-> sh.vicinity, lat |-> la, lng |-> 0]

NamesIn(l) == {l[i].name : i \in 1..Len(l)}

\* Names are compared for equality only, so a list is named canonically:
\* each candidate repeats an earlier name or takes the next unused one.
RECURSIVE FreeLists(_)
FreeLists(n) ==
    IF n = 0 THEN {<<>>}
    ELSE LET shorter == FreeLists(n - 1)
         IN shorter \cup
            {Append(l, mk_place(nm, sh, la)) :
                l \in {x \in shorter : Len(x) = n - 1},
                nm \in 1..(n),
                sh \in Shapes,
                la \in Coords}

CanonicalNames(l) ==
    \A i \in 1..Len(l) : l[i].name <= Cardinality({l[j].name : j \in 1..(i - 1)}) + 1

\* k further candidates with fresh names, one shape and one common location
RECURSIVE with_tail(_, _, _)
with_tail(l, k, la) ==
    IF k = 0 THEN l
    ELSE with_tail(Append(l, mk_place(Cardinality(NamesIn(l)) + 1, PlainShape, la)),
                   k - 1, la)

\* A list is a free head alone, or a free head with a tail that brings it to
\* five candidates or more; the tail sits at either end of the meridian.
TailLengths(l) == {k \in 0..(MaxPlaces - Len(l)) : k = 0 \/ Len(l) + k >= TopN}

FreeHeads == {x \in FreeLists(MaxFree) : CanonicalNames(x)}

\* ------------------------------------------------- aggregator specification
NoResponse == [kind |-> "none"]

\* the module-level names as they stand once main.py is imported
StartupConfig ==
    [GEOCODING_API_KEY |-> "GOOGLE_MAPS_API_KEY",
     PLACES_API_KEY |-> "NEXT_PUBLIC_GOOGLE_PLACES_API_KEY",
     openai_api_key |-> "OPENAI_API_KEY",
     BC_CITIES |-> BC_CITIES]

WalkIdle == walk_distance = 0 /\ walk_minutes = 0 /\ walk_pc = "idle"

NearIdle == near_schools = <<>> /\ closest_school = 0 /\ near_pc = "idle"

ConcIdle == config = StartupConfig /\ reqs = <<>>

\* no request answered yet
NoRequest == [op |-> "none"]

AuthIdle ==
    /\ users = {}
    /\ blacklist = {}
    /\ now = 0
    /\ pending = EmptyBag
    /\ last = NoRequest

AuxIdle == WalkIdle /\ NearIdle /\ ConcIdle /\ AuthIdle

\* the router at rest
RouterIdle ==
    /\ user_query = <<>>
    /\ intent_content = <<>>
    /\ pc = "idle"
    /\ action = <<>>
    /\ address = <<>>
    /\ handler = "none"
    /\ calls = <<>>
    /\ parks = <<>>
    /\ reply = "none"
    /\ response = NoResponse

\* no filter_places call in progress
AggIdle ==
    /\ places_data = <<>>
    /\ origin = [lat |-> 0, lng |-> 0]
    /\ allowed_types = {}
    /\ filtered = <<>>
    /\ agg_pc = "idle"

AggInit ==
    /\ \E l \in FreeHeads : \E k \in TailLengths(l) : \E la \in {0, MaxCoord} :
          places_data = with_tail(l, k, la)
    /\ origin \in Origins
    /\ allowed_types \in {ParkTypes, CentreTypes}
    /\ filtered = <<>>
    /\ agg_pc = "input"
    /\ RouterIdle
    /\ AuxIdle

\* parks = filter_places(parks_data, lat, lng, {...})
CallFilterPlaces ==
    /\ agg_pc = "input"
    /\ filtered' = filter_places(places_data, origin.lat, origin.lng, allowed_types)
    /\ agg_pc' = "returned"
    /\ UNCHANGED <<places_data, origin, allowed_types>>
    /\ UNCHANGED router_vars
    /\ UNCHANGED aux_vars

AggNext == CallFilterPlaces

AggSpec == AggInit /\ [][AggNext]_vars

\* ------------------------------------------------- aggregator properties
Returned == agg_pc = "returned"

Passes(i) == passes_filter(places_data[i], allowed_types)

DistanceAt(i) == distance_of(origin.lat, origin.lng, places_data[i])

\* indices of the candidates that pass the filter and the dedup
Survivors ==
    {i \in 1..Len(places_data) :
        /\ Passes(i)
        /\ \A j \in 1..(i - 1) : ~(Passes(j) /\ places_data[j].name = places_data[i].name)}

InOutput(i) == \E k \in 1..Len(filtered) : filtered[k].name = places_data[i].name

\* C1: the list filter_places returns has length k <= 5 and its entries carry
\* the ranks 1, 2, ..., k in list order.
C1_RanksContiguous ==
    Returned =>
        /\ Len(filtered) <= TopN
        /\ \A k \in 1..Len(filtered) : filtered[k].rank = k

\* more than five candidates survive, and five are returned
C1_Witness ==
    /\ Returned
    /\ Cardinality(Survivors) > TopN
    /\ Len(filtered) = TopN
    /\ filtered[TopN].rank = TopN

\* C2: no two entries of a filter_places output have the same name.
C2_NamesUnique ==
    Returned =>
        \A a, b \in 1..Len(filtered) : a # b => filtered[a].name # filtered[b].name

\* two candidates of one name both pass the filter, and the name is returned
C2_Witness ==
    /\ Returned
    /\ \E i, j \in 1..Len(places_data) :
          /\ i < j /\ Passes(i) /\ Passes(j)
          /\ places_data[i].name = places_data[j].name
          /\ InOutput(i)
    /\ Len(filtered) >= 2

\* C3: a strictly smaller distance_m means a strictly smaller rank, distance_m
\* is non-decreasing along the output, and every distance_m is non-negative.
C3_RankFollowsDistance ==
    Returned =>
        /\ \A a, b \in 1..Len(filtered) :
              filtered[a].distance_m < filtered[b].distance_m
                  => filtered[a].rank < filtered[b].rank
        /\ \A a, b \in 1..Len(filtered) :
              a < b => filtered[a].distance_m <= filtered[b].distance_m
        /\ \A a \in 1..Len(filtered) : filtered[a].distance_m >= 0

\* a farther candidate precedes a nearer one in the input; both are returned
C3_Witness ==
    /\ Returned
    /\ \E i, j \in Survivors :
          /\ i < j /\ DistanceAt(i) > DistanceAt(j)
          /\ \E a, b \in 1..Len(filtered) :
                /\ filtered[a].name = places_data[j].name
                /\ filtered[b].name = places_data[i].name
                /\ filtered[a].rank < filtered[b].rank

\* C9: among the candidates that pass the filter and share a name, the output
\* holds the one that occurs first in the input and none of the later ones,
\* also when a later one is strictly closer.
C9_FirstOccurrenceWins ==
    Returned =>
        \A k \in 1..Len(filtered) :
            \E i \in Survivors :
                /\ places_data[i].name = filtered[k].name
                /\ filtered[k] = [entry_of(places_data[i], origin.lat, origin.lng)
                                     EXCEPT !.rank = k]
                /\ \A m \in 1..Len(filtered) : filtered[m].name = filtered[k].name => m = k

\* a later candidate of the same name is strictly closer, yet the first is returned
C9_Witness ==
    /\ Returned
    /\ \E i \in Survivors : \E j \in 1..Len(places_data) :
          /\ i < j /\ Passes(j)
          /\ places_data[j].name = places_data[i].name
          /\ DistanceAt(j) < DistanceAt(i)
          /\ \E k \in 1..Len(filtered) :
                /\ filtered[k].name = places_data[i].name
                /\ filtered[k].distance_m = DistanceAt(i)
                /\ filtered[k].latitude = places_data[i].lat

\* C10: every candidate that passes filter and dedup but is absent from the
\* output is at least as far as every output entry, and when at most five
\* candidates survive all of them are in the output.
C10_NearestPrefix ==
    Returned =>
        /\ \A i \in Survivors :
              ~InOutput(i) =>
                  \A k \in 1..Len(filtered) : DistanceAt(i) >= filtered[k].distance_m
        /\ Cardinality(Survivors) <= TopN => \A i \in Survivors : InOutput(i)
        /\ Len(filtered) <= Cardinality(Survivors)

\* a survivor that precedes returned candidates in the input is cut off
\* because it is strictly farther than the nearest returned entry
C10_Witness ==
    /\ Returned
    /\ \E i \in Survivors :
          /\ ~InOutput(i)
          /\ DistanceAt(i) > filtered[1].distance_m
          /\ \E j \in Survivors : i < j /\ InOutput(j)

\* C11: the type filter is applied before the dedup. A candidate that fails
\* the filter is never an output entry, and it never makes a later candidate
\* of the same name that passes the filter be dropped: that candidate is in
\* the output unless the cut to the five nearest removes it.
C11_FilterPrecedesDedup ==
    Returned =>
        /\ \A k \in 1..Len(filtered) :
              \A i \in 1..Len(places_data) :
                  filtered[k] = [entry_of(places_data[i], origin.lat, origin.lng)
                                    EXCEPT !.rank = k] => Passes(i)
        /\ \A j \in Survivors :
              (\E i \in 1..(j - 1) :
                    ~Passes(i) /\ places_data[i].name = places_data[j].name)
              => \/ \E k \in 1..Len(filtered) :
                       filtered[k] = [entry_of(places_data[j], origin.lat, origin.lng)
                                         EXCEPT !.rank = k]
                 \/ /\ Len(filtered) = TopN
                    /\ \A k \in 1..TopN : filtered[k].distance_m <= DistanceAt(j)

\* a candidate that fails the filter precedes one of the same name that
\* passes it, and the later one is returned
C11_Witness ==
    /\ Returned
    /\ \E j \in Survivors : \E i \in 1..(j - 1) :
          /\ ~Passes(i)
          /\ places_data[i].name = places_data[j].name
          /\ \E k \in 1..Len(filtered) :
                filtered[k] = [entry_of(places_data[j], origin.lat, origin.lng)
                                  EXCEPT !.rank = k]

\* rank of the output entry built from candidate i, 0 when there is none
RankOf(i) ==
    IF InOutput(i)
    THEN CHOOSE k \in 1..Len(filtered) : filtered[k].name = places_data[i].name
    ELSE 0

\* C21: surviving candidates of equal distance_m appear in the output in
\* their input order: the earlier one gets the smaller rank, and the cut to
\* five never keeps the later one in place of the earlier.
C21_TiesKeepInputOrder ==
    Returned =>
        \A i, j \in Survivors :
            (i < j /\ DistanceAt(i) = DistanceAt(j) /\ InOutput(j))
                => (InOutput(i) /\ RankOf(i) < RankOf(j))

\* two survivors of equal distance, the earlier one behind a farther
\* candidate in the input, are returned in input order
C21_Witness ==
    /\ Returned
    /\ \E i, j \in Survivors :
          /\ i < j /\ DistanceAt(i) = DistanceAt(j)
          /\ places_data[i].name # places_data[j].name
          /\ InOutput(i) /\ InOutput(j)
          /\ RankOf(i) + 1 = RankOf(j)
          /\ \E h \in Survivors : h < i /\ DistanceAt(h) > DistanceAt(i)

\* candidate i carries the category t
Carries(i, t) == \E k \in 1..Len(places_data[i].types) : places_data[i].types[k] = t

\* C29: an output entry has type 'community_centre' exactly when its candidate
\* carries 'community_center', and 'park' otherwise, whichever list it is in:
\* a centre admitted through 'recreation_center' alone is a 'park', and a park
\* that also carries 'community_center' is a 'community_centre'.
C29_LabelFollowsCommunityCenter ==
    Returned =>
        \A i \in Survivors : \A k \in 1..Len(filtered) :
            filtered[k].name = places_data[i].name =>
                /\ filtered[k].type \in {"community_centre", "park"}
                /\ filtered[k].type = "community_centre" <=> Carries(i, "community_center")

\* the community-centre list returns a candidate that carries only
\* 'recreation_center', labelled 'park'
C29_Witness ==
    /\ Returned
    /\ allowed_types = CentreTypes
    /\ \E i \in Survivors : \E k \in 1..Len(filtered) :
          /\ filtered[k].name = places_data[i].name
          /\ places_data[i].types = <<"recreation_center">>
          /\ filtered[k].type = "park"

\* ------------------------------------------------------ collaborator answers
\* words a query text is made of
QueryWords == {"123", "Main", "V6K2C3", "Vancouver", "vancouver", "West", "North", "&"}

RECURSIVE TextsUpTo(_)
TextsUpTo(n) ==
    IF n = 0 THEN {<<>>}
    ELSE LET shorter == TextsUpTo(n - 1)
         IN shorter \cup
            {Append(q, w) : q \in {x \in shorter : Len(x) = n - 1}, w \in QueryWords}

\* non-empty query texts (chat_with_ai answers 400 to an empty one)
Queries == TextsUpTo(MaxQueryLen) \ {<<>>}

\* the queries routed end to end: one per extraction stage, one for the fallback
RouterQueries ==
    {<<"123", "Main", "St">>, <<"V6K2C3">>, <<"West", "Vancouver">>,
     <<"Main", "&", "Oak">>, <<"Main">>}

\* message.content of the intent completion
IntentAnswers ==
    {<<"schools">>, <<" ", "Schools", " ">>, <<"school_catchment">>, <<"transit">>,
     <<"TRANSIT", " ">>, <<"parks">>, <<"assessment">>, <<"unsupported">>,
     <<"hospital">>, <<"schools", "nearby">>, <<>>}

\* message.content of the address completion
AddressAnswers == {<<>>, <<" ">>, <<" ", "Burnaby", " ">>, <<"Oak", "St">>}

\* data['results'] of a nearby search
RouterPlaceLists ==
    {<<>>,
     <<mk_place(1, PlainShape, 1)>>,
     <<mk_place(1, PlainShape, 2), mk_place(2, PlainShape, 0)>>,
     <<mk_place(1, PlainShape, 0), mk_place(1, PlainShape, 2)>>,
     with_tail(<<>>, TopN + 1, 1)}

mk_school(nm, la) ==
    [school_name |-> nm, school_category |-> "Elementary", address |-> "1 School Rd",
     geo_local_area |-> "Kitsilano", lat |-> la, lng |-> 0]

\* data['results'] of the schools dataset
SchoolLists ==
    {<<>>,
     <<mk_school("Alder", 2)>>,
     <<mk_school("Alder", 2), mk_school("Birch", 0)>>,
     <<mk_school("Alder", 0), mk_school("Birch", 2)>>}

\* determine_api_action's except branch: {"error": str(e)}
ErrorResponse(st, detail) == [kind |-> "error", status |-> st, detail |-> detail]

\* raise HTTPException(status_code=404, detail=...) of each handler
NotFoundDetail(h) ==
    CASE h = "nearby_schools" -> "Unable to retrieve nearby schools."
      [] h = "school_catchment" -> "Unable to retrieve school catchment."
      [] h = "nearest_transit" -> "Unable to retrieve transit stations."
      [] h = "nearby_parks_and_centres" ->
             "Unable to retrieve nearby parks and community centres."
      [] h = "get_bc_assessment" -> "Unable to retrieve BC Assessment value."

Done(r) == pc' = "done" /\ response' = r

\* ------------------------------------------------------------ the router
RouterInit ==
    /\ user_query \in RouterQueries
    /\ intent_content = <<>>
    /\ pc = "classify"
    /\ action = <<>>
    /\ address = <<>>
    /\ handler = "none"
    /\ calls = <<>>
    /\ parks = <<>>
    /\ reply = "none"
    /\ response = NoResponse
    /\ places_data = <<>>
    /\ origin = [lat |-> 0, lng |-> 0]
    /\ allowed_types = {}
    /\ filtered = <<>>
    /\ agg_pc = "idle"
    /\ AuxIdle

\* client.chat.completions.create(...) answers; action = content.strip().lower()
IntentLLM ==
    /\ pc = "classify"
    /\ reply' = "ok"
    /\ calls' = Append(calls, "intent_llm")
    /\ \E content \in IntentAnswers :
          /\ intent_content' = content
          /\ action' = lower(strip(content))
          /\ pc' = "extract"
    /\ UNCHANGED <<user_query, address, handler, parks, response>>
    /\ UNCHANGED agg_vars
    /\ UNCHANGED aux_vars

\* client.chat.completions.create(...) raises
IntentLLMRaises ==
    /\ pc = "classify"
    /\ reply' = "raised"
    /\ calls' = Append(calls, "intent_llm")
    /\ Done(ErrorResponse(0, "intent completion failed"))
    /\ UNCHANGED <<user_query, intent_content, action, address, handler, parks>>
    /\ UNCHANGED agg_vars
    /\ UNCHANGED aux_vars

\* extract_address_from_query up to its await: the regex chain
RegexExtract ==
    /\ pc = "extract"
    /\ address' = regex_extract_address(user_query)
    /\ pc' = IF address' # <<>> THEN "dispatch" ELSE "llm_extract"
    /\ UNCHANGED <<reply, user_query, intent_content, action, handler, calls, parks, response>>
    /\ UNCHANGED agg_vars
    /\ UNCHANGED aux_vars

\* llm_extract_address answers; address = content.strip()
LlmExtract ==
    /\ pc = "llm_extract"
    /\ reply' = "ok"
    /\ calls' = Append(calls, "address_llm")
    /\ \E content \in AddressAnswers :
          /\ address' = strip(content)
          /\ pc' = "dispatch"
    /\ UNCHANGED <<user_query, intent_content, action, handler, parks, response>>
    /\ UNCHANGED agg_vars
    /\ UNCHANGED aux_vars

\* openai.ChatCompletion.create(...) raises
LlmExtractRaises ==
    /\ pc = "llm_extract"
    /\ reply' = "raised"
    /\ calls' = Append(calls, "address_llm")
    /\ Done(ErrorResponse(0, "address completion failed"))
    /\ UNCHANGED <<user_query, intent_content, action, address, handler, parks>>
    /\ UNCHANGED agg_vars
    /\ UNCHANGED aux_vars

\* a chain whose first test is "school" in action instead of an equality
handler_for_substring(act) ==
    IF act \in {<<"schools">>, <<"school_catchment">>, <<"schools", "nearby">>}
    THEN "nearby_schools"
    ELSE IF act = <<"transit">> THEN "nearest_transit"
    ELSE IF act = <<"parks">> THEN "nearby_parks_and_centres"
    ELSE IF act = <<"assessment">> THEN "get_bc_assessment"
    ELSE "unsupported"

\* the if/elif chain on action
handler_for(act) ==
    IF act = <<"schools">> THEN "nearby_schools"
    ELSE IF act = <<"school_catchment">> THEN "school_catchment"
    ELSE IF act = <<"transit">> THEN "nearest_transit"
    ELSE IF act = <<"parks">> THEN "nearby_parks_and_centres"
    ELSE IF act = <<"assessment">> THEN "get_bc_assessment"
    ELSE "unsupported"

\* an envelope that names the query in place of the detected token and
\* leaves the address out
UnsupportedResponse_undiagnosed ==
    [kind |-> "unsupported",
     message |-> "Query type not supported yet. Currently available: schools, transit, parks, assessment value.",
     query |-> user_query,
     action_determined |-> user_query,
     address_extracted |-> <<>>]

\* the else branch of the chain
UnsupportedResponse ==
    [kind |-> "unsupported",
     message |-> "Query type not supported yet. Currently available: schools, transit, parks, assessment value.",
     query |-> user_query,
     action_determined |-> action,
     address_extracted |-> address]

\* where a handler goes on after get_geocoding_data returned a result
after_geocode(h) ==
    CASE h = "nearby_schools" -> "search_schools"
      [] h = "school_catchment" -> "open_data"
      [] h = "nearest_transit" -> "search_transit"
      [] h = "nearby_parks_and_centres" -> "search_parks"
      [] h = "get_bc_assessment" -> "place_details"

\* a chain that enters the lookups of the handler without geocoding
Dispatch_without_geocode ==
    /\ pc = "dispatch"
    /\ handler' = handler_for(action)
    /\ IF handler' = "unsupported"
       THEN Done(UnsupportedResponse)
       ELSE pc' = after_geocode(handler') /\ UNCHANGED response
    /\ UNCHANGED <<reply, user_query, intent_content, action, address, calls, parks>>
    /\ UNCHANGED agg_vars
    /\ UNCHANGED aux_vars

\* Route based on LLM's decision
Dispatch ==
    /\ pc = "dispatch"
    /\ handler' = handler_for(action)
    /\ IF handler' = "unsupported"
       THEN Done(UnsupportedResponse)
       ELSE pc' = "geocode" /\ UNCHANGED response
    /\ UNCHANGED <<reply, user_query, intent_content, action, address, calls, parks>>
    /\ UNCHANGED agg_vars
    /\ UNCHANGED aux_vars

\* get_geocoding_data returns data['results'][0]
GeocodeOk ==
    /\ pc = "geocode"
    /\ reply' = "ok"
    /\ calls' = Append(calls, "geocode")
    /\ origin' \in Origins
    /\ pc' = after_geocode(handler)
    /\ UNCHANGED <<user_query, intent_content, action, address, handler, parks, response>>
    /\ UNCHANGED <<places_data, allowed_types, filtered, agg_pc>>
    /\ UNCHANGED aux_vars

\* a handler that goes on to its lookups although geocoding returned None
GeocodeFails_continues ==
    /\ pc = "geocode"
    /\ reply' \in {"non_200", "not_ok"}
    /\ calls' = Append(calls, "geocode")
    /\ pc' = after_geocode(handler)
    /\ UNCHANGED <<user_query, intent_content, action, address, handler, parks, response>>
    /\ UNCHANGED agg_vars
    /\ UNCHANGED aux_vars

\* get_geocoding_data returns None (status_code != 200 or data['status'] != 'OK'):
\* the handler raises HTTPException(404), the router's except returns it
GeocodeFails ==
    /\ pc = "geocode"
    /\ reply' \in {"non_200", "not_ok"}
    /\ calls' = Append(calls, "geocode")
    /\ Done(ErrorResponse(404, NotFoundDetail(handler)))
    /\ UNCHANGED <<user_query, intent_content, action, address, handler, parks>>
    /\ UNCHANGED agg_vars
    /\ UNCHANGED aux_vars

\* requests.get raises inside get_geocoding_data
GeocodeRaises ==
    /\ pc = "geocode"
    /\ reply' = "raised"
    /\ calls' = Append(calls, "geocode")
    /\ Done(ErrorResponse(0, "geocoding request failed"))
    /\ UNCHANGED <<user_query, intent_content, action, address, handler, parks>>
    /\ UNCHANGED agg_vars
    /\ UNCHANGED aux_vars

\* what a nearby search hands back: data['results'], or [] on a non-200
\* status or a payload status other than OK
search_results(status) == IF status = "ok" THEN RouterPlaceLists ELSE {<<>>}

\* a comprehension over the first five schools only
schools_data_top5(schools) ==
    [i \in 1..Len(Take(schools, TopN)) |->
        [name |-> schools[i].name, address |-> schools[i].vicinity]]

\* {"name": school.get('name'), "address": school.get('vicinity')} for each school
schools_data(schools) ==
    [i \in 1..Len(schools) |->
        [name |-> schools[i].name, address |-> schools[i].vicinity]]

\* {"name": station['name']} for each station
transit_data(stations) == [i \in 1..Len(stations) |-> [name |-> stations[i].name]]

\* nearby_schools after geocoding: get_nearby_schools and the response
SearchSchools ==
    /\ pc = "search_schools"
    /\ reply' \in {"ok", "non_200", "not_ok"}
    /\ calls' = Append(calls, "place_search")
    /\ places_data' \in search_results(reply')
    /\ Done([kind |-> "ok", query |-> "Nearby Schools",
             data |-> schools_data(places_data')])
    /\ UNCHANGED <<user_query, intent_content, action, address, handler, parks>>
    /\ UNCHANGED <<origin, allowed_types, filtered, agg_pc>>
    /\ UNCHANGED aux_vars

\* nearest_transit after geocoding: get_nearby_transit_stations and the response
SearchTransit ==
    /\ pc = "search_transit"
    /\ reply' \in {"ok", "non_200", "not_ok"}
    /\ calls' = Append(calls, "place_search")
    /\ places_data' \in search_results(reply')
    /\ Done([kind |-> "ok", query |-> "Nearest Transit Stations",
             data |-> transit_data(places_data')])
    /\ UNCHANGED <<user_query, intent_content, action, address, handler, parks>>
    /\ UNCHANGED <<origin, allowed_types, filtered, agg_pc>>
    /\ UNCHANGED aux_vars

\* nearby_parks_and_centres: get_nearby_places('park') and filter_places
SearchParks ==
    /\ pc = "search_parks"
    /\ reply' \in {"ok", "non_200", "not_ok"}
    /\ calls' = Append(calls, "place_search")
    /\ places_data' \in search_results(reply')
    /\ allowed_types' = ParkTypes
    /\ filtered' = filter_places(places_data', origin.lat, origin.lng, ParkTypes)
    /\ parks' = filtered'
    /\ pc' = "search_centres"
    /\ UNCHANGED <<user_query, intent_content, action, address, handler, response>>
    /\ UNCHANGED <<origin, agg_pc>>
    /\ UNCHANGED aux_vars

\* a second aggregation that goes on with the seen set of the first
SearchCentres_shared_seen ==
    /\ pc = "search_centres"
    /\ reply' \in {"ok", "non_200", "not_ok"}
    /\ calls' = Append(calls, "place_search")
    /\ places_data' \in search_results(reply')
    /\ allowed_types' = CentreTypes
    /\ filtered' = assign_rank(Take(sort_by_distance(
                       filter_loop(places_data', 1, origin.lat, origin.lng, CentreTypes,
                                   [filtered |-> <<>>, seen |-> NamesIn(parks)])), TopN))
    /\ Done([kind |-> "ok", query |-> "Nearby Parks and Community Centres",
             address |-> address,
             results |-> [parks |-> parks, communities |-> filtered']])
    /\ UNCHANGED <<user_query, intent_content, action, address, handler, parks>>
    /\ UNCHANGED <<origin, agg_pc>>
    /\ UNCHANGED aux_vars

\* nearby_parks_and_centres: get_nearby_places('establishment'), filter_places
\* and the response
SearchCentres ==
    /\ pc = "search_centres"
    /\ reply' \in {"ok", "non_200", "not_ok"}
    /\ calls' = Append(calls, "place_search")
    /\ places_data' \in search_results(reply')
    /\ allowed_types' = CentreTypes
    /\ filtered' = filter_places(places_data', origin.lat, origin.lng, CentreTypes)
    /\ Done([kind |-> "ok", query |-> "Nearby Parks and Community Centres",
             address |-> address,
             results |-> [parks |-> parks, communities |-> filtered']])
    /\ UNCHANGED <<user_query, intent_content, action, address, handler, parks>>
    /\ UNCHANGED <<origin, agg_pc>>
    /\ UNCHANGED aux_vars

\* a nearby search whose error leaves determine_api_action uncaught
SearchRaises_propagates ==
    /\ pc \in {"search_schools", "search_transit", "search_parks", "search_centres"}
    /\ reply' = "raised"
    /\ calls' = Append(calls, "place_search")
    /\ pc' = "propagated"
    /\ UNCHANGED <<user_query, intent_content, action, address, handler, parks, response>>
    /\ UNCHANGED agg_vars
    /\ UNCHANGED aux_vars

\* requests.get raises inside a nearby search
SearchRaises ==
    /\ pc \in {"search_schools", "search_transit", "search_parks", "search_centres"}
    /\ reply' = "raised"
    /\ calls' = Append(calls, "place_search")
    /\ Done(ErrorResponse(0, "place search request failed"))
    /\ UNCHANGED <<user_query, intent_content, action, address, handler, parks>>
    /\ UNCHANGED agg_vars
    /\ UNCHANGED aux_vars

\* the dict get_school_catchment returns for schools[i]; the string for None
catchment_data(schools, i) ==
    IF i = 0 THEN [text |-> "No nearby school catchment found."]
    ELSE [school_name |-> schools[i].school_name,
          category |-> schools[i].school_category,
          address |-> schools[i].address,
          geo_local_area |-> schools[i].geo_local_area]

\* data['results'] handed to find_closest_school; a status other than 200
\* skips the scan and leaves the "not found" string
catchment_records(status) == IF status = "ok" THEN SchoolLists ELSE {<<>>}

\* school_catchment after geocoding: get_school_catchment and the response
OpenData ==
    /\ pc = "open_data"
    /\ reply' \in {"ok", "non_200"}
    /\ calls' = Append(calls, "open_data")
    /\ \E schools \in catchment_records(reply') :
          Done([kind |-> "ok", query |-> "School Catchment",
                data |-> catchment_data(schools,
                            find_closest_school(origin.lat, origin.lng, schools))])
    /\ UNCHANGED <<user_query, intent_content, action, address, handler, parks>>
    /\ UNCHANGED agg_vars
    /\ UNCHANGED aux_vars

\* requests.get raises inside get_school_catchment
OpenDataRaises ==
    /\ pc = "open_data"
    /\ reply' = "raised"
    /\ calls' = Append(calls, "open_data")
    /\ Done(ErrorResponse(0, "open data request failed"))
    /\ UNCHANGED <<user_query, intent_content, action, address, handler, parks>>
    /\ UNCHANGED agg_vars
    /\ UNCHANGED aux_vars

\* get_bc_assessment after geocoding: get_places_data returns data['result']
PlaceDetails ==
    /\ pc = "place_details"
    /\ reply' = "ok"
    /\ calls' = Append(calls, "place_details")
    /\ Done([kind |-> "ok", query |-> "BC Assessment Value",
             data |-> [property_address |-> address, assessed_value |-> "$2,450,000",
                       land_value |-> "$1,700,000", improvement_value |-> "$750,000",
                       assessment_year |-> 2024,
                       lat |-> origin.lat, lng |-> origin.lng]])
    /\ UNCHANGED <<user_query, intent_content, action, address, handler, parks>>
    /\ UNCHANGED agg_vars
    /\ UNCHANGED aux_vars

\* get_places_data returns None: HTTPException(404) through the except branch
PlaceDetailsFails ==
    /\ pc = "place_details"
    /\ reply' \in {"non_200", "not_ok"}
    /\ calls' = Append(calls, "place_details")
    /\ Done(ErrorResponse(404, NotFoundDetail(handler)))
    /\ UNCHANGED <<user_query, intent_content, action, address, handler, parks>>
    /\ UNCHANGED agg_vars
    /\ UNCHANGED aux_vars

\* requests.get raises inside get_places_data
PlaceDetailsRaises ==
    /\ pc = "place_details"
    /\ reply' = "raised"
    /\ calls' = Append(calls, "place_details")
    /\ Done(ErrorResponse(0, "place details request failed"))
    /\ UNCHANGED <<user_query, intent_content, action, address, handler, parks>>
    /\ UNCHANGED agg_vars
    /\ UNCHANGED aux_vars

RouterNext ==
    \/ IntentLLM
    \/ IntentLLMRaises
    \/ RegexExtract
    \/ LlmExtract
    \/ LlmExtractRaises
    \/ Dispatch
    \/ GeocodeOk
    \/ GeocodeFails
    \/ GeocodeRaises
    \/ SearchSchools
    \/ SearchTransit
    \/ SearchParks
    \/ SearchCentres
    \/ SearchRaises
    \/ OpenData
    \/ OpenDataRaises
    \/ PlaceDetails
    \/ PlaceDetailsFails
    \/ PlaceDetailsRaises

RouterSpec == RouterInit /\ [][RouterNext]_vars

\* every collaborator call comes back with one of its outcomes, and the
\* router's own steps are taken: the router is never left waiting
FairRouterSpec == RouterSpec /\ WF_vars(RouterNext)

\* ------------------------------------------- extract_address_from_query alone
ExtractInit ==
    /\ user_query \in Queries
    /\ intent_content = <<>>
    /\ pc = "extract"
    /\ action = <<>>
    /\ address = <<>>
    /\ handler = "none"
    /\ calls = <<>>
    /\ parks = <<>>
    /\ reply = "none"
    /\ response = NoResponse
    /\ places_data = <<>>
    /\ origin = [lat |-> 0, lng |-> 0]
    /\ allowed_types = {}
    /\ filtered = <<>>
    /\ agg_pc = "idle"
    /\ AuxIdle

ExtractNext ==
    \/ RegexExtract
    \/ LlmExtract
    \/ LlmExtractRaises

ExtractSpec == ExtractInit /\ [][ExtractNext]_vars

\* ------------------------------------------------------- router properties
Count(seq, x) == Cardinality({i \in 1..Len(seq) : seq[i] = x})

Downstream == {"place_search", "open_data", "place_details"}

NoStageMatches(q) ==
    /\ street_match(q) = <<>>
    /\ postal_match(q) = <<>>
    /\ city_match(q) = <<>>
    /\ intersection_match(q) = <<>>

\* the address completion answered, and what it left after strip() is empty
EmptyExtraction ==
    /\ Count(calls, "address_llm") = 1
    /\ pc \notin {"classify", "extract", "llm_extract"}
    /\ address = <<>>
    /\ response # ErrorResponse(0, "address completion failed")

\* C4: when the extracted address is empty the router returns an "address not
\* found" result at once and issues no geocoding, place-search, open-data or
\* assessment call, whatever the intent.
C4_EmptyAddressShortCircuits ==
    EmptyExtraction =>
        /\ Count(calls, "geocode") = 0
        /\ \A c \in Downstream : Count(calls, c) = 0
        /\ pc = "done" => response.kind = "address_not_found"

\* what the schools and transit handlers return
SchoolsOrTransitDone ==
    /\ pc = "done"
    /\ handler \in {"nearby_schools", "nearest_transit"}
    /\ response.kind = "ok"

GeocodeFailed ==
    /\ calls # <<>>
    /\ calls[Len(calls)] = "geocode"
    /\ reply \in {"non_200", "not_ok"}

\* C6: when geocoding fails the router returns a not-found result for every
\* supported intent, issues no place-search, open-data or place-details call
\* and does not repeat the geocoding call.
C6_GeocodeFailureIsTerminal ==
    GeocodeFailed =>
        /\ pc = "done"
        /\ response = ErrorResponse(404, NotFoundDetail(handler))
        /\ Count(calls, "geocode") = 1
        /\ \A c \in Downstream : Count(calls, c) = 0

\* a parks query whose geocoding reported a payload status other than OK
C6_Witness ==
    /\ GeocodeFailed
    /\ reply = "not_ok"
    /\ handler = "nearby_parks_and_centres"
    /\ response.kind = "error"
    /\ response.status = 404

\* extract_address_from_query has returned
Extracted == pc = "dispatch"

\* C7: extraction returns the result of the earliest matching stage in the
\* order street, postal code, city, intersection, LLM; the LLM is asked only
\* when none of the four stages matches, and at most once per query.
C7_EarliestStageWins ==
    /\ Extracted =>
          IF street_match(user_query) # <<>> THEN address = street_match(user_query)
          ELSE IF postal_match(user_query) # <<>> THEN address = postal_match(user_query)
          ELSE IF city_match(user_query) # <<>> THEN address = city_match(user_query)
          ELSE IF intersection_match(user_query) # <<>>
               THEN address = intersection_match(user_query)
          ELSE Count(calls, "address_llm") = 1
    /\ Count(calls, "address_llm") <= 1
    /\ Count(calls, "address_llm") = 1 => NoStageMatches(user_query)

\* a text with both a street address and a city: the street stage answers
\* and the LLM is not asked
C7_Witness ==
    /\ Extracted
    /\ street_match(user_query) # <<>>
    /\ city_match(user_query) # <<>>
    /\ street_match(user_query) # city_match(user_query)
    /\ address = street_match(user_query)
    /\ Count(calls, "address_llm") = 0

\* the city stage is the one that answers: neither street nor postal code matches
CityStageAnswers ==
    /\ Extracted
    /\ street_match(user_query) = <<>>
    /\ postal_match(user_query) = <<>>
    /\ \E c \in 1..Len(BC_CITIES) : contains(lower(user_query), lower(BC_CITIES[c]))

\* C27: the city stage returns the first entry of BC_CITIES, in list order,
\* that the lower-cased text contains. 'Vancouver' precedes 'West Vancouver'
\* and 'North Vancouver' and is part of both, so a text containing either is
\* answered with 'Vancouver' and the stage never returns the other two.
C27_FirstGazetteerEntryWins ==
    CityStageAnswers =>
        /\ \E c \in 1..Len(BC_CITIES) :
              /\ address = BC_CITIES[c]
              /\ contains(lower(user_query), lower(BC_CITIES[c]))
              /\ \A d \in 1..(c - 1) : ~contains(lower(user_query), lower(BC_CITIES[d]))
        /\ address \notin {<<"West", "Vancouver">>, <<"North", "Vancouver">>}
        /\ (\/ contains(lower(user_query), <<"west", "vancouver">>)
            \/ contains(lower(user_query), <<"north", "vancouver">>))
              => address = <<"Vancouver">>

\* a text naming North Vancouver is answered with Vancouver
C27_Witness ==
    /\ CityStageAnswers
    /\ contains(user_query, <<"North", "Vancouver">>)
    /\ address = <<"Vancouver">>
    /\ Count(calls, "address_llm") = 0

\* positions of the text where a number of 1-5 digits is followed by a word
NumberLed(text) ==
    {i \in 1..(Len(text) - 1) :
        text[i] \in HouseNumbers /\ text[i + 1] \in AlnumWords}

\* C28: when the text holds a standalone number of 1-5 digits followed by an
\* alphanumeric word, extraction returns the phrase led by the leftmost such
\* number; no later stage answers and the LLM is not asked, also when a
\* postal code or a city name occurs in the text.
C28_NumberLedPhraseWins ==
    (NumberLed(user_query) # {} /\ pc # "extract") =>
        LET i == Least(NumberLed(user_query))
        IN /\ Extracted
           /\ Len(address) >= 2
           /\ i + Len(address) - 1 <= Len(user_query)
           /\ address = SubSeq(user_query, i, i + Len(address) - 1)
           /\ Count(calls, "address_llm") = 0

\* a postal code stands before the number-led phrase and a city name after
\* the number; the phrase is returned, not the postal code or the city
C28_Witness ==
    /\ Extracted
    /\ NumberLed(user_query) # {}
    /\ postal_starts(user_query) # {}
    /\ Least(postal_starts(user_query)) < Least(NumberLed(user_query))
    /\ city_hits(user_query) # {}
    /\ address[1] = user_query[Least(NumberLed(user_query))]
    /\ address # postal_match(user_query)
    /\ address # city_match(user_query)

HandlerNames ==
    [schools |-> "nearby_schools", school_catchment |-> "school_catchment",
     transit |-> "nearest_transit", parks |-> "nearby_parks_and_centres",
     assessment |-> "get_bc_assessment"]

\* the handler whose code the router is executing, judged by its position
Executing ==
    CASE pc = "search_schools" -> "nearby_schools"
      [] pc = "search_transit" -> "nearest_transit"
      [] pc \in {"search_parks", "search_centres"} -> "nearby_parks_and_centres"
      [] pc = "open_data" -> "school_catchment"
      [] pc = "place_details" -> "get_bc_assessment"
      [] OTHER -> handler

\* C8: the trimmed, lower-cased intent token sends the router to the handler
\* of that name when it is one of the five names and to the unsupported
\* branch otherwise; no other handler is reached.
C8_DispatchIsClosed ==
    handler # "none" =>
        /\ \A n \in DOMAIN HandlerNames :
              handler = HandlerNames[n] <=> lower(strip(intent_content)) = <<n>>
        /\ handler = "unsupported" <=>
              \A n \in DOMAIN HandlerNames : lower(strip(intent_content)) # <<n>>
        /\ Executing = handler
        /\ handler = "unsupported" => pc = "done" /\ response.kind = "unsupported"

\* " Schools " reaches the schools handler
C8_Witness ==
    /\ intent_content = <<" ", "Schools", " ">>
    /\ handler = "nearby_schools"
    /\ pc = "search_schools"


\* the collaborator called last, "none" before the first call
LastCall == IF calls = <<>> THEN "none" ELSE calls[Len(calls)]

\* the last collaborator call answered a non-200 status, a payload status
\* other than OK, or raised
CollaboratorFailed == reply \in {"non_200", "not_ok", "raised"}

\* the list the failed call contributes to the returned envelope is empty
FailedPayloadIsEmpty ==
    IF handler = "nearby_parks_and_centres"
    THEN response.results.communities = <<>>
    ELSE DOMAIN response.data = {}

\* C14: when a place-search or open-data call fails (non-200 status, non-OK
\* payload status, or an error raised by the call) the query still completes
\* with the normal envelope of its intent, with an empty list as the result
\* of the failed call; the query does not end as an error result.
C14_FailureDegradesToEmptyList ==
    /\ (pc = "done" /\ LastCall \in {"place_search", "open_data"} /\ CollaboratorFailed)
          => (response.kind = "ok" /\ FailedPayloadIsEmpty)
    /\ (pc = "search_centres" /\ CollaboratorFailed) => parks = <<>>

\* {"message": "Unable to extract address from query"}
AddressNotFound == [kind |-> "message", message |-> "Unable to extract address from query"]

\* the address completion was asked and raised
LlmExtractFailed == LastCall = "address_llm" /\ reply = "raised"

\* C15: when the address completion raises, the router returns the "address
\* not found" result and issues no geocoding or downstream call.
C15_LlmFailureIsExtractionFailure ==
    LlmExtractFailed =>
        /\ pc = "done"
        /\ response = AddressNotFound
        /\ Count(calls, "geocode") = 0
        /\ \A c \in Downstream : Count(calls, c) = 0

\* determine_api_action has returned a value to chat_with_ai
RouterReturned ==
    /\ pc = "done"
    /\ response.kind \in {"ok", "unsupported", "error"}

\* C16: for every query and every combination of collaborator outcomes
\* (success, empty result, non-200, raised exception) the router terminates
\* and returns a response value; no exception reaches its caller.
C16_RouterAlwaysReturns ==
    /\ <>RouterReturned
    /\ [](pc = "done" => RouterReturned)
    /\ [](pc \in {"classify", "extract", "llm_extract", "dispatch", "geocode",
                  "search_schools", "search_transit", "search_parks",
                  "search_centres", "open_data", "place_details", "done"})

\* a parks query whose second nearby search raised has been answered
C16_Witness ==
    /\ RouterReturned
    /\ handler = "nearby_parks_and_centres"
    /\ reply = "raised"
    /\ Count(calls, "place_search") = 2
    /\ response.kind = "error"

\* a list is a filter_places output of its own: at most five entries, ranked
\* 1..k in order, no name twice
AggregatedList(l) ==
    /\ Len(l) <= TopN
    /\ \A k \in 1..Len(l) : l[k].rank = k
    /\ \A a, b \in 1..Len(l) : a # b => l[a].name # l[b].name

\* every candidate of the last search that passes allowed_types has its name
\* in l, unless l is full with entries at most as far
AllSurvivorsIn(l) ==
    \A i \in 1..Len(places_data) :
        Passes(i) =>
            \/ \E k \in 1..Len(l) : l[k].name = places_data[i].name
            \/ /\ Len(l) = TopN
               /\ \A k \in 1..TopN : l[k].distance_m <= DistanceAt(i)

\* nearby_parks_and_centres has returned its envelope
ParksDone ==
    /\ pc = "done"
    /\ handler = "nearby_parks_and_centres"
    /\ response.kind = "ok"

\* C18: for a parks query the parks list and the community-centre list are
\* aggregated independently: each has at most 5 entries, its own ranks 1..k
\* and its own dedup, and a name in the parks list does not remove a
\* candidate of that name from the community-centre list.
C18_ListsAggregatedIndependently ==
    /\ pc = "search_centres" =>
          /\ AggregatedList(parks)
          /\ allowed_types = ParkTypes
          /\ AllSurvivorsIn(parks)
    /\ ParksDone =>
          /\ response.results.parks = parks
          /\ AggregatedList(response.results.parks)
          /\ AggregatedList(response.results.communities)
          /\ allowed_types = CentreTypes
          /\ AllSurvivorsIn(response.results.communities)

\* both lists are non-empty and hold an entry of the same name
C18_Witness ==
    /\ ParksDone
    /\ Count(calls, "place_search") = 2
    /\ \E a \in 1..Len(response.results.parks) :
          \E b \in 1..Len(response.results.communities) :
              /\ response.results.parks[a].name = response.results.communities[b].name
              /\ response.results.communities[b].rank = b
    /\ Len(response.results.parks) # Len(response.results.communities)

\* the dispatch chain has run on a token outside the five supported names
UnsupportedToken ==
    /\ handler # "none"
    /\ \A n \in DOMAIN HandlerNames : lower(strip(intent_content)) # <<n>>

\* C19: for an intent token outside the five supported names the router
\* returns the fixed "not supported" envelope with the detected token and the
\* extracted address, and makes no geocoding, place-search, open-data or
\* place-details call.
C19_UnsupportedEnvelope ==
    UnsupportedToken =>
        /\ handler = "unsupported"
        /\ pc = "done"
        /\ response.kind = "unsupported"
        /\ response.message = "Query type not supported yet. Currently available: schools, transit, parks, assessment value."
        /\ response.query = user_query
        /\ response.action_determined = lower(strip(intent_content))
        /\ response.address_extracted = address
        /\ Count(calls, "geocode") = 0
        /\ \A c \in Downstream : Count(calls, c) = 0

\* a hospital query with a street address has been answered
C19_Witness ==
    /\ UnsupportedToken
    /\ pc = "done"
    /\ intent_content = <<"hospital">>
    /\ response.action_determined = <<"hospital">>
    /\ response.address_extracted = <<"123", "Main", "St">>
    /\ calls = <<"intent_llm">>

\* position of a collaborator in the order of a routed query
StageOf(c) ==
    CASE c = "intent_llm" -> 1
      [] c = "address_llm" -> 2
      [] c = "geocode" -> 3
      [] c \in Downstream -> 4

\* C20: the collaborator calls of a routed query occur in the order intent
\* classification, address extraction, geocoding, then the lookups of the
\* intent; no place-search, open-data or place-details call is issued unless
\* a geocoding call of the query has returned a coordinate before it.
C20_CallOrder ==
    /\ [](/\ \A a, b \in 1..Len(calls) : a < b => StageOf(calls[a]) <= StageOf(calls[b])
          /\ \A c \in {"intent_llm", "address_llm", "geocode"} : Count(calls, c) <= 1
          /\ calls # <<>> => calls[1] = "intent_llm"
          /\ (Count(calls, "geocode") = 1 /\ NoStageMatches(user_query))
                => Count(calls, "address_llm") = 1)
    /\ [][(calls' # calls /\ calls'[Len(calls')] \in Downstream) =>
              /\ Count(calls, "geocode") = 1
              /\ LastCall = "geocode" => reply = "ok"
              /\ LastCall \in {"geocode", "place_search"}]_vars

\* an assessment query: intent completion, address completion, geocoding and
\* the place-details call, in this order
C20_Witness ==
    /\ pc = "done"
    /\ calls = <<"intent_llm", "address_llm", "geocode", "place_details">>
    /\ response.kind = "ok"

\* ------------------------------------------------------------ walking time
\* the two assignments distance_m = int(...), walking_time_min = int(distance_m / 80)
\* of filter_places, for one candidate whose distance_m is walk_distance
WalkInit ==
    /\ walk_distance \in 0..MaxDistance
    /\ walk_minutes = 0
    /\ walk_pc = "input"
    /\ AggIdle
    /\ RouterIdle
    /\ NearIdle
    /\ ConcIdle
    /\ AuthIdle

ComputeWalkingTime ==
    /\ walk_pc = "input"
    /\ walk_minutes' = walking_time_of(walk_distance)
    /\ walk_pc' = "returned"
    /\ UNCHANGED <<walk_distance, near_vars, conc_vars, auth_vars, agg_vars, router_vars>>

WalkNext == ComputeWalkingTime

WalkSpec == WalkInit /\ [][WalkNext]_vars

\* C12: walking_time_min is the floor of distance_m / 80 for every
\* non-negative integer distance_m: 79 gives 0, 80 gives 1, 159 gives 1.
C12_WalkingTimeIsFloor ==
    walk_pc = "returned" =>
        /\ walk_minutes \in Nat
        /\ walk_minutes * WalkSpeed <= walk_distance
        /\ walk_distance < (walk_minutes + 1) * WalkSpeed
        /\ walk_distance = 79 => walk_minutes = 0
        /\ walk_distance = 80 => walk_minutes = 1
        /\ walk_distance = 159 => walk_minutes = 1

\* a distance one metre short of two minutes has been converted
C12_Witness ==
    /\ walk_pc = "returned"
    /\ walk_distance = 159
    /\ walk_minutes = 1

\* ----------------------------------------------------------- closest school
SchoolNames == <<"Alder", "Birch", "Cedar", "Dogwood", "Elder">>

\* data['results']: up to MaxSchools records, each at a latitude of the grid
SchoolRecordLists ==
    UNION {{[i \in 1..n |-> mk_school(SchoolNames[i], la[i])] :
               la \in [1..n -> 0..MaxCoord]} : n \in 0..MaxSchools}

NearInit ==
    /\ near_schools \in SchoolRecordLists
    /\ closest_school = 0
    /\ near_pc = "input"
    /\ origin \in Origins
    /\ places_data = <<>>
    /\ allowed_types = {}
    /\ filtered = <<>>
    /\ agg_pc = "idle"
    /\ RouterIdle
    /\ WalkIdle
    /\ ConcIdle
    /\ AuthIdle

\* closest_school = find_closest_school(lat, lng, data['results'])
CallFindClosestSchool ==
    /\ near_pc = "input"
    /\ closest_school' = find_closest_school(origin.lat, origin.lng, near_schools)
    /\ near_pc' = "returned"
    /\ UNCHANGED <<near_schools, walk_vars, conc_vars, auth_vars, agg_vars, router_vars>>

NearNext == CallFindClosestSchool

NearSpec == NearInit /\ [][NearNext]_vars

\* distance from the origin to the i-th school record
SchoolDistance(i) ==
    geodesic_dm(origin.lat, origin.lng, near_schools[i].lat, near_schools[i].lng)

\* C13: find_closest_school returns None exactly when the list is empty;
\* otherwise it returns a record of the list whose distance to the origin is
\* at most that of every other record.
C13_ClosestSchoolIsNearest ==
    near_pc = "returned" =>
        /\ closest_school = 0 <=> near_schools = <<>>
        /\ closest_school # 0 =>
              /\ closest_school \in 1..Len(near_schools)
              /\ \A j \in 1..Len(near_schools) :
                    SchoolDistance(closest_school) <= SchoolDistance(j)

\* the nearest record is not the first of the list and another is strictly farther
C13_Witness ==
    /\ near_pc = "returned"
    /\ Len(near_schools) >= 2
    /\ closest_school > 1
    /\ SchoolDistance(1) > SchoolDistance(closest_school)

\* C22: when several records are at the same minimal distance from the
\* origin, find_closest_school returns the one that occurs first in the list.
C22_FirstOfTiesWins ==
    (near_pc = "returned" /\ closest_school # 0) =>
        \A j \in 1..(closest_school - 1) :
            SchoolDistance(j) > SchoolDistance(closest_school)

\* two records at the minimal distance, behind a farther one: the earlier
\* of the two is returned
C22_Witness ==
    /\ near_pc = "returned"
    /\ closest_school > 1
    /\ \E j \in (closest_school + 1)..Len(near_schools) :
          /\ SchoolDistance(j) = SchoolDistance(closest_school)
          /\ near_schools[j].school_name # near_schools[closest_school].school_name

\* ------------------------------------------------------ concurrent queries
\* Each routed query owns the locals of its determine_api_action call and of
\* the handler it runs; reqs[i] holds them for query i, together with the
\* collaborator answers the query received. config is the module-level state.
ConcQueries == {<<"West", "Vancouver">>, <<"Main">>}

ConcIntentAnswers == {<<"parks">>, <<"hospital">>}

ConcAddressAnswers == {<<" ", "Burnaby", " ">>}

ConcOrigins == {[lat |-> 1, lng |-> 0]}

ConcPlaceLists ==
    {<<mk_place(1, PlainShape, 0), mk_place(2, PlainShape, 2)>>,
     <<mk_place(2, PlainShape, 1)>>}

\* the locals of a call that has just been entered
new_request(query) ==
    [user_query |-> query, pc |-> "classify", intent_content |-> <<>>,
     action |-> <<>>, address_reply |-> "none", address_content |-> <<>>,
     address |-> <<>>, handler |-> "none", geocode_reply |-> "none",
     origin |-> [lat |-> 0, lng |-> 0], parks_data |-> <<>>, centres_data |-> <<>>,
     parks |-> <<>>, response |-> NoResponse]

\* regex_extract_address with the gazetteer it iterates over as an argument
extract_with(cities, query) ==
    LET hits == {c \in 1..Len(cities) : contains(lower(query), lower(cities[c]))}
    IN IF street_match(query) # <<>> THEN street_match(query)
       ELSE IF postal_match(query) # <<>> THEN postal_match(query)
       ELSE IF hits # {} THEN cities[Least(hits)]
       ELSE intersection_match(query)

\* the else branch of the dispatch chain for the locals r
unsupported_envelope(r) ==
    [kind |-> "unsupported",
     message |-> "Query type not supported yet. Currently available: schools, transit, parks, assessment value.",
     query |-> r.user_query,
     action_determined |-> r.action,
     address_extracted |-> r.address]

\* the dict nearby_parks_and_centres returns
parks_envelope(address_in, parks_in, centres_in) ==
    [kind |-> "ok", query |-> "Nearby Parks and Community Centres",
     address |-> address_in,
     results |-> [parks |-> parks_in, communities |-> centres_in]]

ConcInit ==
    /\ config = StartupConfig
    /\ reqs \in [1..MaxConcurrent -> {new_request(q) : q \in ConcQueries}]
    /\ AggIdle
    /\ RouterIdle
    /\ WalkIdle
    /\ NearIdle
    /\ AuthIdle

\* query i: the intent completion answers
ConcClassify(i) ==
    /\ reqs[i].pc = "classify"
    /\ \E content \in ConcIntentAnswers :
          reqs' = [reqs EXCEPT ![i].intent_content = content,
                               ![i].action = lower(strip(content)),
                               ![i].pc = "extract"]
    /\ UNCHANGED <<config, agg_vars, router_vars, walk_vars, near_vars, auth_vars>>

\* query i: extract_address_from_query, the address completion answering
\* when the regex chain finds nothing
ConcExtract(i) ==
    /\ reqs[i].pc = "extract"
    /\ LET found == extract_with(config.BC_CITIES, reqs[i].user_query)
       IN IF found # <<>>
          THEN reqs' = [reqs EXCEPT ![i].address = found, ![i].pc = "dispatch"]
          ELSE \E content \in ConcAddressAnswers :
                  reqs' = [reqs EXCEPT ![i].address_reply = "ok",
                                       ![i].address_content = content,
                                       ![i].address = strip(content),
                                       ![i].pc = "dispatch"]
    /\ UNCHANGED <<config, agg_vars, router_vars, walk_vars, near_vars, auth_vars>>

\* query i: the address completion raises
ConcExtractRaises(i) ==
    /\ reqs[i].pc = "extract"
    /\ extract_with(config.BC_CITIES, reqs[i].user_query) = <<>>
    /\ reqs' = [reqs EXCEPT ![i].address_reply = "raised",
                            ![i].response = ErrorResponse(0, "address completion failed"),
                            ![i].pc = "done"]
    /\ UNCHANGED <<config, agg_vars, router_vars, walk_vars, near_vars, auth_vars>>

\* query i: the if/elif chain on action
ConcDispatch(i) ==
    /\ reqs[i].pc = "dispatch"
    /\ LET h == handler_for(reqs[i].action)
       IN IF h = "unsupported"
          THEN reqs' = [reqs EXCEPT ![i].handler = h,
                                    ![i].response = unsupported_envelope(reqs[i]),
                                    ![i].pc = "done"]
          ELSE reqs' = [reqs EXCEPT ![i].handler = h, ![i].pc = "geocode"]
    /\ UNCHANGED <<config, agg_vars, router_vars, walk_vars, near_vars, auth_vars>>

\* query i: get_geocoding_data(address, GEOCODING_API_KEY)
ConcGeocode(i) ==
    /\ reqs[i].pc = "geocode"
    /\ \/ \E o \in ConcOrigins :
             reqs' = [reqs EXCEPT ![i].geocode_reply = "ok", ![i].origin = o,
                                  ![i].pc = after_geocode(reqs[i].handler)]
       \/ reqs' = [reqs EXCEPT ![i].geocode_reply = "not_ok",
                               ![i].response =
                                   ErrorResponse(404, NotFoundDetail(reqs[i].handler)),
                               ![i].pc = "done"]
    /\ UNCHANGED <<config, agg_vars, router_vars, walk_vars, near_vars, auth_vars>>

\* query i: get_nearby_places('park') and filter_places
ConcSearchParks(i) ==
    /\ reqs[i].pc = "search_parks"
    /\ \E found \in ConcPlaceLists :
          reqs' = [reqs EXCEPT ![i].parks_data = found,
                               ![i].parks = filter_places(found, reqs[i].origin.lat,
                                                          reqs[i].origin.lng, ParkTypes),
                               ![i].pc = "search_centres"]
    /\ UNCHANGED <<config, agg_vars, router_vars, walk_vars, near_vars, auth_vars>>

\* a second filter_places call whose seen set is shared by all queries: it
\* starts from the names the other queries have already returned as parks
ConcSearchCentres_shared_seen(i) ==
    /\ reqs[i].pc = "search_centres"
    /\ \E found \in ConcPlaceLists :
          LET others == UNION {NamesIn(reqs[j].parks) : j \in DOMAIN reqs \ {i}}
              centres == assign_rank(Take(sort_by_distance(
                             filter_loop(found, 1, reqs[i].origin.lat,
                                         reqs[i].origin.lng, CentreTypes,
                                         [filtered |-> <<>>, seen |-> others])), TopN))
          IN reqs' = [reqs EXCEPT ![i].centres_data = found,
                                  ![i].response = parks_envelope(reqs[i].address,
                                                                 reqs[i].parks, centres),
                                  ![i].pc = "done"]
    /\ UNCHANGED <<config, agg_vars, router_vars, walk_vars, near_vars, auth_vars>>

\* query i: get_nearby_places('establishment'), filter_places and the response
ConcSearchCentres(i) ==
    /\ reqs[i].pc = "search_centres"
    /\ \E found \in ConcPlaceLists :
          LET centres == filter_places(found, reqs[i].origin.lat,
                                       reqs[i].origin.lng, CentreTypes)
          IN reqs' = [reqs EXCEPT ![i].centres_data = found,
                                  ![i].response = parks_envelope(reqs[i].address,
                                                                 reqs[i].parks, centres),
                                  ![i].pc = "done"]
    /\ UNCHANGED <<config, agg_vars, router_vars, walk_vars, near_vars, auth_vars>>

ConcNext ==
    \E i \in DOMAIN reqs :
        \/ ConcClassify(i)
        \/ ConcExtract(i)
        \/ ConcExtractRaises(i)
        \/ ConcDispatch(i)
        \/ ConcGeocode(i)
        \/ ConcSearchParks(i)
        \/ ConcSearchCentres(i)

ConcSpec == ConcInit /\ [][ConcNext]_vars

\* the response of a query routed alone, computed from its text and from the
\* collaborator answers it received
AloneResponse(r) ==
    LET regex_address == regex_extract_address(r.user_query)
        alone_address == IF regex_address # <<>> THEN regex_address
                         ELSE strip(r.address_content)
        alone_action == lower(strip(r.intent_content))
        alone_handler == handler_for(alone_action)
    IN IF regex_address = <<>> /\ r.address_reply = "raised"
       THEN ErrorResponse(0, "address completion failed")
       ELSE IF alone_handler = "unsupported"
       THEN unsupported_envelope([user_query |-> r.user_query, action |-> alone_action,
                                  address |-> alone_address])
       ELSE IF r.geocode_reply # "ok"
       THEN ErrorResponse(404, NotFoundDetail(alone_handler))
       ELSE parks_envelope(alone_address,
                filter_places(r.parks_data, r.origin.lat, r.origin.lng, ParkTypes),
                filter_places(r.centres_data, r.origin.lat, r.origin.lng, CentreTypes))

\* C17: in every interleaving of concurrently routed queries a step writes
\* the locals of one query only, every finished query has the response it
\* would have when routed alone with the same collaborator answers, and the
\* module-level configuration (API keys, BC_CITIES) keeps its startup value.
C17_QueriesAreIsolated ==
    /\ [](config = StartupConfig)
    /\ [](\A i \in DOMAIN reqs :
            reqs[i].pc = "done" => reqs[i].response = AloneResponse(reqs[i]))
    /\ [][/\ config' = config
          /\ \A i, j \in DOMAIN reqs :
                (i # j /\ reqs'[i] # reqs[i]) => reqs'[j] = reqs[j]]_vars

\* one query has been answered with a community centre whose name another
\* query, still between its two searches, holds in its parks list
C17_Witness ==
    \E i, j \in DOMAIN reqs :
        /\ i # j
        /\ reqs[i].pc = "done"
        /\ reqs[i].response.kind = "ok"
        /\ reqs[j].pc = "search_centres"
        /\ NamesIn(reqs[i].response.results.communities) \cap NamesIn(reqs[j].parks) # {}
        /\ reqs[i].user_query # reqs[j].user_query

\* --------------------------------------------------- accounts and tokens
\* A JWT is the record of what it carries: its sub claim, its exp claim and
\* whether its signature was made with JWT_SECRET_KEY. Time is counted in
\* ticks; JWT_ACCESS_TOKEN_EXPIRE_MINUTES is one tick.
TokenLifetime == 1

Emails == {"ann@x.ca", "bob@x.ca"}

Passwords == {"pw", "bad"}

\* payload.get("sub") of a token without a sub claim
NoSub == "none"

\* pwd_context.hash(password[:72])
get_password_hash(password) == <<"bcrypt", password>>

\* pwd_context.verify(plain_password, hashed_password)
verify_password(plain_password, hashed_password) ==
    hashed_password = <<"bcrypt", plain_password>>

\* jwt.encode({"sub": ..., "exp": utcnow() + expires_delta, ...}, JWT_SECRET_KEY)
create_access_token(sub, t) == [sub |-> sub, exp |-> t + TokenLifetime, signed |-> TRUE]

\* the tokens a client presents: one minted for ann at time 0, one minted for
\* her at MaxTime, one signed for an email that has no row, one signed
\* without a sub claim, one with a foreign signature
TokenPool ==
    {create_access_token("ann@x.ca", 0),
     create_access_token("ann@x.ca", MaxTime),
     create_access_token("bob@x.ca", MaxTime),
     create_access_token(NoSub, MaxTime),
     [sub |-> "ann@x.ca", exp |-> MaxTime + TokenLifetime, signed |-> FALSE]}

\* what verify_token returns for None
NoPayload == [none |-> TRUE]

\* db.query(TokenBlacklist).filter(TokenBlacklist.token == token).first()
blacklisted(token, rows) == \E row \in rows : row.token = token

\* a verify_token that does not look at the blacklist
verify_token_ignoring_blacklist(token, rows, t) ==
    IF ~token.signed \/ token.exp < t THEN NoPayload
    ELSE IF token.sub = NoSub THEN NoPayload
    ELSE token

\* verify_token: blacklist first, then jwt.decode (signature, exp), then sub
verify_token(token, rows, t) ==
    IF blacklisted(token, rows) THEN NoPayload
    ELSE IF ~token.signed \/ token.exp < t THEN NoPayload
    ELSE IF token.sub = NoSub THEN NoPayload
    ELSE token

\* db.query(User).filter(User.email == email).first() finds a row
user_exists(email, rows) == \E row \in rows : row.email = email

\* the endpoints declared with Depends(get_current_user)
Protected ==
    {"/query", "/assessment", "/nearby-schools", "/school-catchment",
     "/nearest-transit", "/nearby-parks-and-centres", "/chat"}

\* an answered request: what was asked and what was answered
Answer(op, endpoint, token, email, st, detail, headers) ==
    [op |-> op, endpoint |-> endpoint, token |-> token, email |-> email,
     status |-> st, detail |-> detail, headers |-> headers]

\* the token field of a request that carries none
NoToken == [sub |-> NoSub, exp |-> 0, signed |-> FALSE]

BearerHeader == "WWW-Authenticate: Bearer"

\* the row ann's registration stored
AnnRow ==
    [id |-> 1, username |-> "ann", email |-> "ann@x.ca",
     hashed_password |-> get_password_hash("pw")]

AuthInit ==
    /\ users = {AnnRow}
    /\ blacklist = {}
    /\ now = 0
    /\ pending = EmptyBag
    /\ last = NoRequest
    /\ AggIdle
    /\ RouterIdle
    /\ WalkIdle
    /\ NearIdle
    /\ ConcIdle

AuthFrame == UNCHANGED <<agg_vars, router_vars, walk_vars, near_vars, conc_vars>>

\* time passes
Tick ==
    /\ now < MaxTime
    /\ now' = now + 1
    /\ UNCHANGED <<users, blacklist, pending, last>>
    /\ AuthFrame

\* a login that answers an unknown email with its own detail text
Login_naming_the_cause ==
    /\ \E email \in Emails, password \in Passwords :
          LET found == {row \in users : row.email = email}
          IN last' =
                IF found = {}
                THEN Answer("login", "/login", NoToken, email, 401,
                            "Email not registered", BearerHeader)
                ELSE LET db_user == CHOOSE row \in found : TRUE
                     IN IF ~verify_password(password, db_user.hashed_password)
                        THEN Answer("login", "/login", NoToken, email, 401,
                                    "Invalid email or password", BearerHeader)
                        ELSE Answer("login", "/login",
                                    create_access_token(db_user.email, now), email,
                                    200, "bearer", "none")
    /\ UNCHANGED <<users, blacklist, now, pending>>
    /\ AuthFrame

\* POST /login
Login ==
    /\ \E email \in Emails, password \in Passwords :
          LET found == {row \in users : row.email = email}
          IN last' =
                IF found = {}
                THEN Answer("login", "/login", NoToken, email, 401,
                            "Invalid email or password", BearerHeader)
                ELSE LET db_user == CHOOSE row \in found : TRUE
                     IN IF ~verify_password(password, db_user.hashed_password)
                        THEN Answer("login", "/login", NoToken, email, 401,
                                    "Invalid email or password", BearerHeader)
                        ELSE Answer("login", "/login",
                                    create_access_token(db_user.email, now), email,
                                    200, "bearer", "none")
    /\ UNCHANGED <<users, blacklist, now, pending>>
    /\ AuthFrame

\* a dependency that lets a token through when its sub has no users row
get_current_user_without_lookup(token) ==
    IF verify_token(token, blacklist, now) = NoPayload
    THEN [status |-> 401, detail |-> "Invalid authentication credentials",
          headers |-> BearerHeader]
    ELSE [status |-> 200, detail |-> "result", headers |-> "none"]

\* get_current_user, then the endpoint: 401 or the endpoint's result
get_current_user(token) ==
    IF verify_token(token, blacklist, now) = NoPayload
    THEN [status |-> 401, detail |-> "Invalid authentication credentials",
          headers |-> BearerHeader]
    ELSE IF ~user_exists(token.sub, users)
    THEN [status |-> 401, detail |-> "User not found", headers |-> BearerHeader]
    ELSE [status |-> 200, detail |-> "result", headers |-> "none"]

\* a request to one of the protected endpoints
CallProtected ==
    /\ \E endpoint \in Protected, token \in TokenPool :
          LET r == get_current_user(token)
          IN last' = Answer("protected", endpoint, token, token.sub,
                            r.status, r.detail, r.headers)
    /\ UNCHANGED <<users, blacklist, now, pending>>
    /\ AuthFrame

\* POST /logout up to db.add: verify_token, 401 or the row to insert
LogoutVerify ==
    /\ BagCardinality(pending) < MaxPending
    /\ \E token \in TokenPool :
          IF verify_token(token, blacklist, now) = NoPayload
          THEN /\ last' = Answer("logout", "/logout", token, token.sub, 401,
                                 "Invalid token", "none")
               /\ UNCHANGED pending
          ELSE /\ pending' = pending (+) SetToBag({[op |-> "logout", token |-> token,
                                                    expires_at |-> token.exp]})
               /\ UNCHANGED last
    /\ UNCHANGED <<users, blacklist, now>>
    /\ AuthFrame

\* POST /logout, db.commit(): the insert, refused by the unique constraint on
\* token_blacklist.token when a row with the token exists
LogoutCommit ==
    /\ \E request \in BagToSet(pending) :
          /\ request.op = "logout"
          /\ LET token == request.token
             IN IF blacklisted(token, blacklist)
                THEN /\ last' = Answer("logout", "/logout", token, token.sub, 500,
                                       "Internal Server Error", "none")
                     /\ UNCHANGED blacklist
                ELSE /\ blacklist' = blacklist \cup
                            {[id |-> Cardinality(blacklist) + 1, token |-> token,
                              expires_at |-> request.expires_at]}
                     /\ last' = Answer("logout", "/logout", token, token.sub, 200,
                                       "Successfully logged out", "none")
          /\ pending' = pending (-) SetToBag({request})
    /\ UNCHANGED <<users, now>>
    /\ AuthFrame

AuthNext ==
    \/ Tick
    \/ Login
    \/ CallProtected
    \/ LogoutVerify
    \/ LogoutCommit

AuthSpec == AuthInit /\ [][AuthNext]_vars

\* C23: once a logout with token t has succeeded, t stays on the blacklist
\* and every later request that presents t, to a protected endpoint or to
\* /logout, is answered 401, also while t is not yet expired.
C23_LoggedOutTokenIsRejected ==
    /\ [](\A t \in TokenPool :
            blacklisted(t, blacklist) =>
                /\ verify_token(t, blacklist, now) = NoPayload
                /\ get_current_user(t).status = 401)
    /\ [][\A t \in TokenPool :
            blacklisted(t, blacklist) =>
                /\ blacklisted(t, blacklist')
                /\ (last' # last /\ last'.op = "protected" /\ last'.token = t)
                      => last'.status = 401
                /\ (last' # last /\ last'.op = "logout" /\ last'.token = t
                       /\ pending' = pending)
                      => last'.status = 401]_vars

\* ann's token, logged out and not yet expired, has just been refused by /chat
C23_Witness ==
    /\ last.op = "protected"
    /\ last.endpoint = "/chat"
    /\ blacklisted(last.token, blacklist)
    /\ last.token.signed
    /\ last.token.exp >= now
    /\ user_exists(last.token.sub, users)
    /\ last.status = 401

\* the five conditions on a presented token, at the time of the request
TokenAccepted(t) ==
    /\ t.signed
    /\ t.exp >= now
    /\ ~blacklisted(t, blacklist)
    /\ t.sub # NoSub
    /\ user_exists(t.sub, users)

\* C24: a protected endpoint (/query, /assessment, /nearby-schools,
\* /school-catchment, /nearest-transit, /nearby-parks-and-centres, /chat)
\* produces a result only when the presented token is validly signed,
\* unexpired, not blacklisted, carries a sub and the sub is the email of a
\* stored user; every other presented token is answered 401.
C24_ProtectedNeedsValidToken ==
    /\ [](\A t \in TokenPool :
            get_current_user(t).status = IF TokenAccepted(t) THEN 200 ELSE 401)
    /\ [][(last' # last /\ last'.op = "protected") =>
              /\ last'.endpoint \in Protected
              /\ last'.status \in {200, 401}
              /\ last'.status = 200 <=> TokenAccepted(last'.token)]_vars

\* a validly signed, unexpired token whose sub has no users row has been
\* refused by /assessment
C24_Witness ==
    /\ last.op = "protected"
    /\ last.endpoint = "/assessment"
    /\ last.token.signed
    /\ last.token.exp >= now
    /\ ~blacklisted(last.token, blacklist)
    /\ last.token.sub = "bob@x.ca"
    /\ last.status = 401
    /\ last.detail = "User not found"

\* C30: a failed login is answered with status 401, the detail 'Invalid email
\* or password' and the header WWW-Authenticate: Bearer, whether the email
\* has a users row or not: the answer does not tell the two cases apart.
C30_FailedLoginIsUniform ==
    (last.op = "login" /\ last.status # 200) =>
        /\ last.status = 401
        /\ last.detail = "Invalid email or password"
        /\ last.headers = BearerHeader
        /\ last.token = NoToken

\* a login with an email that is not registered has failed
C30_Witness ==
    /\ last.op = "login"
    /\ last.status = 401
    /\ \A row \in users : row.email # last.email
    /\ users # {}

\* C26: under every interleaving of logout requests, two requests with the
\* same valid token included, every logout request ends with "Successfully
\* logged out" or with a 401, and no token is on the blacklist twice.
C26_LogoutEndsCleanly ==
    /\ last.op = "logout" =>
          \/ last.status = 200 /\ last.detail = "Successfully logged out"
          \/ last.status = 401
    /\ \A a, b \in blacklist : a.token = b.token => a = b

\* ------------------------------------------------------------ registration
Usernames == {"ann", "bob"}

\* the bodies of POST /register: UserCreate
RegisterInputs ==
    [username : Usernames, email : Emails, password : {"pw"},
     confirm_password : Passwords]

RegisterAnswer(user, st, detail) ==
    [op |-> "register", endpoint |-> "/register", token |-> NoToken,
     email |-> user.email, status |-> st, detail |-> detail, headers |-> "none",
     request |-> user]

\* the two tests of register before the insert; status 0 when both pass
register_check(user, rows) ==
    IF user.password # user.confirm_password
    THEN [status |-> 400, detail |-> "Passwords do not match"]
    ELSE IF user_exists(user.email, rows)
    THEN [status |-> 400, detail |-> "Email already registered"]
    ELSE [status |-> 0, detail |-> "none"]

\* the unique constraints of the users table refuse the row
violates_unique(user, rows) ==
    \E row \in rows : row.email = user.email \/ row.username = user.username

RegInit ==
    /\ users = {}
    /\ blacklist = {}
    /\ now = 0
    /\ pending = EmptyBag
    /\ last = NoRequest
    /\ AggIdle
    /\ RouterIdle
    /\ WalkIdle
    /\ NearIdle
    /\ ConcIdle

\* POST /register up to db.add: the password test and the email lookup
RegisterCheck ==
    /\ BagCardinality(pending) < MaxPending
    /\ \E user \in RegisterInputs :
          LET r == register_check(user, users)
          IN IF r.status = 400
             THEN /\ last' = RegisterAnswer(user, 400, r.detail)
                  /\ UNCHANGED pending
             ELSE /\ pending' = pending (+) SetToBag({[op |-> "register", user |-> user]})
                  /\ UNCHANGED last
    /\ UNCHANGED <<users, blacklist, now>>
    /\ AuthFrame

\* a commit on a table that has no unique constraint
RegisterCommit_unconstrained ==
    /\ \E request \in BagToSet(pending) :
          /\ request.op = "register"
          /\ users' = users \cup
                {[id |-> Cardinality(users) + 1, username |-> request.user.username,
                  email |-> request.user.email,
                  hashed_password |-> get_password_hash(request.user.password)]}
          /\ last' = RegisterAnswer(request.user, 200, "User registered successfully")
          /\ pending' = pending (-) SetToBag({request})
    /\ UNCHANGED <<blacklist, now>>
    /\ AuthFrame

\* POST /register, db.commit(): the insert, refused by the unique constraints
\* on users.email and users.username
RegisterCommit ==
    /\ \E request \in BagToSet(pending) :
          /\ request.op = "register"
          /\ IF violates_unique(request.user, users)
             THEN /\ last' = RegisterAnswer(request.user, 500, "Internal Server Error")
                  /\ UNCHANGED users
             ELSE /\ users' = users \cup
                        {[id |-> Cardinality(users) + 1,
                          username |-> request.user.username,
                          email |-> request.user.email,
                          hashed_password |-> get_password_hash(request.user.password)]}
                  /\ last' = RegisterAnswer(request.user, 200,
                                            "User registered successfully")
          /\ pending' = pending (-) SetToBag({request})
    /\ UNCHANGED <<blacklist, now>>
    /\ AuthFrame

RegNext ==
    \/ RegisterCheck
    \/ RegisterCommit

RegSpec == RegInit /\ [][RegNext]_vars

====
